---- MODULE Spec2Model ----
(***************************************************************************)
(* Multimodal routing system: graph construction (backend_multimodal_graph)*)
(* route computation (backend_router, utils_py) and the service lifecycle  *)
(* (backend_main).                                                         *)
(*                                                                         *)
(* Units.  Edge times are minutes in the code; here they are integers in   *)
(* 1/UnitsPerMinute of a minute, a unit in which every time the build can  *)
(* produce from an integer length in metres is exact.  Rounded segment     *)
(* times are integers in tenths of a minute.  Coordinates lie on a line:   *)
(* y is a position in metres and x is 0, so the geodesic distance of two   *)
(* coordinates is the absolute difference of their y.                      *)
(***************************************************************************)
EXTENDS Integers, Sequences, FiniteSets, TLC

VARIABLES osm, G, startup, response

vars == <<osm, G, startup, response>>

(***************************************************************************)
(* Bounds of the model.                                                    *)
(***************************************************************************)
\* rows of the edge list the extraction hands over, all modes together
MaxRows == 2

\* original location ids of the map extract
Ids == {1, 2, 3, 4}

\* lengths (metres) a row may carry; NoLength: the row has no 'length'
NoLength == -1
Lengths == {NoLength, 20}

\* the roads of the extract: location pairs a row may join
Roads == {<<1, 2>>, <<2, 3>>, <<3, 4>>}

\* the positions (metres along the line) of the locations 1..4
Geometries == { <<0, 10, 11, 21>>, <<0, 10, 11, 0>>, <<0, 20, 40, 60>> }

\* the nodes the extract may have no coordinates for
NoCoordChoices == { {}, {<<2, "walk">>} }

\* extracts of one mode only: their rows at most, and their positions, in
\* one of which the locations 1 and 3 lie on the same coordinate
MaxChain == 3
ChainGeometries == { <<0, 10, 0, 21>>, <<0, 10, 11, 21>> }

(***************************************************************************)
(* Program constants.                                                      *)
(***************************************************************************)
UnitsPerMinute == 10000
walk_speed == 5
bike_speed == 15
car_speed == 40
fallback_time == 10000
max_transfer_distance == 10
colocated_transfer_time == 5000
transfer_time == 20000
car_flat_cost == 20

Modes == {"walk", "bike", "car"}
EdgeModes == Modes \cup {"transfer"}

(***************************************************************************)
(* Helpers on sequences.                                                   *)
(***************************************************************************)
Range(s) == {s[i] : i \in 1..Len(s)}

Abs(n) == IF n < 0 THEN -n ELSE n

RECURSIVE SumSeq(_)
SumSeq(s) == IF s = <<>> THEN 0 ELSE Head(s) + SumSeq(Tail(s))

\* s without the entries that already occur earlier in it (dict key order)
RECURSIVE Dedup(_)
Dedup(s) ==
  IF s = <<>> THEN <<>>
  ELSE LET r == Dedup(SubSeq(s, 1, Len(s) - 1))
           x == s[Len(s)]
       IN IF x \in Range(r) THEN r ELSE Append(r, x)

(***************************************************************************)
(* Graphs.  A graph is [nodes, data, edges]: the nodes in insertion order, *)
(* each node's attributes (<<y, x>>, or <<>> when it carries no            *)
(* coordinates), and the edges in insertion order.  An edge is a record    *)
(* [u, v, attr], attr the attribute dictionary with the keys length, mode, *)
(* time and weight; a key the dictionary lacks is NoLength / "" / -1.      *)
(* The key of a parallel edge u->v is its rank among the edges u->v, so    *)
(* key 0 is the first of them in the sequence.                             *)
(***************************************************************************)
None == [none |-> TRUE]

HasCoord(d) == Len(d) = 2

\* geopy.distance.geodesic(pos1, pos2).meters, on the line
geodesic(pos1, pos2) == Abs(pos1[1] - pos2[1])

\* nx.from_pandas_edgelist(gdf, "u", "v", edge_attr=True, MultiDiGraph):
\* nodes in order of first appearance, one edge per row with the row's
\* attributes.  ndata is the coordinate lookup of the extraction.
_extract_graph(gdf, ndata) ==
  LET ends == [i \in 1..(2 * Len(gdf)) |->
                 IF i % 2 = 1 THEN gdf[(i + 1) \div 2].u ELSE gdf[i \div 2].v]
      ns == Dedup(ends)
  IN [nodes |-> ns,
      data  |-> [n \in Range(ns) |-> ndata[n]],
      edges |-> [i \in 1..Len(gdf) |->
                   [u |-> gdf[i].u, v |-> gdf[i].v,
                    attr |-> [length |-> gdf[i].length, mode |-> "",
                              time |-> -1, weight |-> -1]]]]

\* f"{n}_{mode_suffix}": the namespaced id is the token list <<n, suffix>>
Label(n, mode_suffix) == <<n, mode_suffix>>

\* node.split('_')[0]
OriginalId(node) == node[1]

\* the layer a namespaced node belongs to
LayerOf(node) == node[2]

_relabel_nodes(graph, mode_suffix) ==
  [nodes |-> [i \in 1..Len(graph.nodes) |-> Label(graph.nodes[i], mode_suffix)],
   data  |-> [n \in {Label(m, mode_suffix) : m \in Range(graph.nodes)} |->
                graph.data[n[1]]],
   edges |-> [i \in 1..Len(graph.edges) |->
                [u |-> Label(graph.edges[i].u, mode_suffix),
                 v |-> Label(graph.edges[i].v, mode_suffix),
                 attr |-> graph.edges[i].attr]]]

\* time_minutes = length / 1000 / speed_kmh * 60, in 1/UnitsPerMinute min
TravelTime(length, speed_kmh) == (length * 60 * UnitsPerMinute) \div (1000 * speed_kmh)

\* a slip in the attributes: the weight is set in the length branch only
EdgeAttributes_weight_in_branch(data, mode, speed_kmh) ==
  IF data.length # NoLength
  THEN [length |-> data.length, mode |-> mode,
        time |-> TravelTime(data.length, speed_kmh),
        weight |-> TravelTime(data.length, speed_kmh)]
  ELSE [length |-> data.length, mode |-> mode, time |-> fallback_time, weight |-> -1]

\* the loop body of _add_mode_attributes: the attributes of one edge
EdgeAttributes(data, mode, speed_kmh) ==
  LET time == IF data.length # NoLength THEN TravelTime(data.length, speed_kmh)
              ELSE fallback_time
  IN [length |-> data.length, mode |-> mode, time |-> time, weight |-> time]

_add_mode_attributes(graph, mode, speed_kmh) ==
  [graph EXCEPT !.edges =
     [i \in 1..Len(graph.edges) |->
        [graph.edges[i] EXCEPT !.attr = EdgeAttributes(@, mode, speed_kmh)]]]

\* nx.compose_all: union of nodes and edges, in the order of the graphs
RECURSIVE compose_all(_)
compose_all(graphs) ==
  IF Len(graphs) = 1 THEN graphs[1]
  ELSE LET g == compose_all(SubSeq(graphs, 1, Len(graphs) - 1))
           h == graphs[Len(graphs)]
           ns == Dedup(g.nodes \o h.nodes)
       IN [nodes |-> ns,
           data  |-> [n \in Range(ns) |->
                        IF n \in Range(h.nodes) THEN h.data[n] ELSE g.data[n]],
           edges |-> g.edges \o h.edges]

TransferEdge(n1, n2, t, len) ==
  [u |-> n1, v |-> n2,
   attr |-> [length |-> len, mode |-> "transfer", time |-> t, weight |-> t]]

\* node_positions: every layer node carrying 'y' and 'x', walk, bike, car
NodePositions(walk_graph, bike_graph, car_graph) ==
  LET all == walk_graph.nodes \o bike_graph.nodes \o car_graph.nodes
      dat == [n \in Range(all) |->
                IF n \in Range(car_graph.nodes) THEN car_graph.data[n]
                ELSE IF n \in Range(bike_graph.nodes) THEN bike_graph.data[n]
                ELSE walk_graph.data[n]]
      keys == Dedup(SelectSeq(all, LAMBDA n : HasCoord(dat[n])))
  IN [keys |-> keys, pos |-> dat]

\* a slip in the linker: the co-located branch adds both directions, as
\* the proximity branch does
LinkPair_both_ways(node1, pos1, node2, pos2) ==
  IF node1 = node2 THEN <<>>
  ELSE IF OriginalId(node1) = OriginalId(node2)
       THEN <<TransferEdge(node1, node2, colocated_transfer_time, 0),
              TransferEdge(node2, node1, colocated_transfer_time, 0)>>
  ELSE LET distance == geodesic(pos1, pos2)
       IN IF distance <= max_transfer_distance
          THEN <<TransferEdge(node1, node2, transfer_time, distance),
                 TransferEdge(node2, node1, transfer_time, distance)>>
          ELSE <<>>

\* the body of the inner loop for one (node1, node2): the edges it adds
LinkPair(node1, pos1, node2, pos2) ==
  IF node1 = node2 THEN <<>>
  ELSE IF OriginalId(node1) = OriginalId(node2)
       THEN <<TransferEdge(node1, node2, colocated_transfer_time, 0)>>
  ELSE LET distance == geodesic(pos1, pos2)
       IN IF distance <= max_transfer_distance
          THEN <<TransferEdge(node1, node2, transfer_time, distance),
                 TransferEdge(node2, node1, transfer_time, distance)>>
          ELSE <<>>

RECURSIVE LinkLoop(_, _, _, _)
LinkLoop(np, i, j, edges) ==
  IF i > Len(np.keys) THEN edges
  ELSE IF j > Len(np.keys) THEN LinkLoop(np, i + 1, 1, edges)
  ELSE LinkLoop(np, i, j + 1,
                edges \o LinkPair(np.keys[i], np.pos[np.keys[i]],
                                  np.keys[j], np.pos[np.keys[j]]))

_add_interlayer_edges(merged_graph, walk_graph, bike_graph, car_graph) ==
  [merged_graph EXCEPT !.edges =
     LinkLoop(NodePositions(walk_graph, bike_graph, car_graph), 1, 1, @)]

\* MultimodalGraphBuilder.build on an existing OSM file
\* the node attributes the extraction of one mode supplies: location n at
\* <<y, x>>, or nothing for a node the extract has no coordinates for
NodeData(o, mode) ==
  [n \in Ids |-> IF <<n, mode>> \in o.nocoord THEN <<>> ELSE <<o.geo[n], 0>>]

build(o) ==
  LET walk_graph == _add_mode_attributes(
                      _relabel_nodes(_extract_graph(o.gdf["walk"], NodeData(o, "walk")), "walk"),
                      "walk", walk_speed)
      bike_graph == _add_mode_attributes(
                      _relabel_nodes(_extract_graph(o.gdf["bike"], NodeData(o, "bike")), "bike"),
                      "bike", bike_speed)
      car_graph  == _add_mode_attributes(
                      _relabel_nodes(_extract_graph(o.gdf["car"], NodeData(o, "car")), "car"),
                      "car", car_speed)
      merged_graph == compose_all(<<walk_graph, bike_graph, car_graph>>)
  IN _add_interlayer_edges(merged_graph, walk_graph, bike_graph, car_graph)

(***************************************************************************)
(* utils_py                                                                *)
(***************************************************************************)
\* The scan of nearest_node from position k of the node order on, with the
\* running (min_dist, nearest); min_dist = -1 stands for float('inf') and
\* nearest = <<>> for None.
RECURSIVE NearestScan(_, _, _, _, _)
NearestScan(g, lat, k, min_dist, nearest) ==
  IF k > Len(g.nodes) THEN nearest
  ELSE LET n == g.nodes[k]
           d == g.data[n]
       IN IF ~HasCoord(d) THEN NearestScan(g, lat, k + 1, min_dist, nearest)
          ELSE LET dist == geodesic(<<lat, 0>>, d)
               IN IF min_dist = -1 \/ dist < min_dist
                  THEN NearestScan(g, lat, k + 1, dist, n)
                  ELSE NearestScan(g, lat, k + 1, min_dist, nearest)

nearest_node(g, lat) == NearestScan(g, lat, 1, -1, <<>>)

\* a slip in the tariff: the car is charged by the minute
calc_cost_by_minute(mode, time_minutes) ==
  IF mode = "car" THEN car_flat_cost * (time_minutes \div UnitsPerMinute) ELSE 0

calc_cost(mode, time_minutes) ==
  IF mode = "car" THEN car_flat_cost
  ELSE IF mode = "bike" THEN 0
  ELSE IF mode = "walk" THEN 0
  ELSE IF mode = "transfer" THEN 0
  ELSE 0

(***************************************************************************)
(* backend_router                                                          *)
(***************************************************************************)
\* the edges u -> v of g in key order (graph.get_edge_data(u, v))
ParallelEdges(g, u, v) ==
  SelectSeq(g.edges, LAMBDA e : e.u = u /\ e.v = v)

MinOf(S) == CHOOSE x \in S : \A y \in S : x <= y

\* the weight nx.shortest_path(weight='time') gives the hop u -> v of a
\* multigraph: the least 'time' among the parallel edges
HopWeight(g, u, v) == MinOf({e.attr.time : e \in Range(ParallelEdges(g, u, v))})

Preds(g, v) == {e.u : e \in {x \in Range(g.edges) : x.v = v}}

\* The distances are a set of <<node, least time known>>, of the nodes
\* reached so far.
DistOf(D, v) == (CHOOSE p \in D : p[1] = v)[2]

Reached(D) == {p[1] : p \in D}

\* One round of relaxation of the distances D.
Relax(g, D) ==
  LET cand(v) == (IF v \in Reached(D) THEN {DistOf(D, v)} ELSE {})
                 \cup {DistOf(D, u) + HopWeight(g, u, v) : u \in Preds(g, v) \cap Reached(D)}
  IN {<<v, MinOf(cand(v))>> : v \in {n \in Range(g.nodes) : cand(n) # {}}}

RECURSIVE RelaxN(_, _, _)
RelaxN(g, D, k) == IF k = 0 THEN D ELSE RelaxN(g, Relax(g, D), k - 1)

\* least total time from source to every node it reaches
Distances(g, source) == RelaxN(g, {<<source, 0>>}, Len(g.nodes))

\* the simple paths source -> v that realise the distances D
RECURSIVE TightPaths(_, _, _, _, _)
TightPaths(g, D, source, v, after) ==
  IF v = source THEN {<<source>>}
  ELSE UNION { {Append(p, v) : p \in TightPaths(g, D, source, u, after \cup {v})} :
               u \in {p \in (Preds(g, v) \cap Reached(D)) \ (after \cup {v}) :
                        DistOf(D, p) + HopWeight(g, p, v) = DistOf(D, v)} }

\* nx.shortest_path(graph, source, target, weight='time'): the set of paths
\* it may return ({} when it raises NetworkXNoPath); which of several
\* paths of least time it returns is not specified.
shortest_path(g, source, target) ==
  LET D == Distances(g, source)
  IN IF target \notin Reached(D) THEN {} ELSE TightPaths(g, D, source, target, {})

_get_edge_data(graph, u, v) == ParallelEdges(graph, u, v)[1].attr

\* round(x, 1) of a time: tenths of a minute, ties to the even tenth
RoundTenths(t) ==
  LET unit == UnitsPerMinute \div 10
      q == t \div unit
      r == t % unit
  IN IF 2 * r > unit THEN q + 1
     ELSE IF 2 * r < unit THEN q
     ELSE IF q % 2 = 0 THEN q ELSE q + 1

Segment(st) ==
  [mode |-> st.current_mode, coords |-> st.current_coords,
   time |-> RoundTenths(st.current_time), cost |-> st.current_cost]

AddCoord(coords, coord) ==
  IF coord \in Range(coords) THEN coords ELSE Append(coords, coord)

\* a slip in the loop: a new segment starts without current_time = 0
SegmentStep_time_kept(graph, path, i, st) ==
  LET u == path[i]
      v == path[i + 1]
      edge_data == _get_edge_data(graph, u, v)
      mode == edge_data.mode
      time == edge_data.time
      coord == graph.data[u]
  IN IF ~HasCoord(coord) THEN [st EXCEPT !.error = TRUE]
     ELSE LET s1 == IF st.current_mode = ""
                    THEN [st EXCEPT !.current_mode = mode, !.current_coords = <<coord>>]
                    ELSE st
              s2 == IF mode # s1.current_mode
                    THEN [s1 EXCEPT !.segments = Append(@, Segment(s1)),
                                    !.current_mode = mode,
                                    !.current_coords = <<coord>>,
                                    !.current_cost = 0]
                    ELSE s1
          IN [s2 EXCEPT !.current_coords = AddCoord(@, coord),
                        !.current_time = @ + time,
                        !.current_cost = @ + calc_cost(mode, time),
                        !.hops = Append(@, edge_data)]

\* one iteration of the loop of _path_to_segments, for the edge path[i] ->
\* path[i+1]; st.error is set when graph.nodes[u]['y'] raises KeyError
SegmentStep(graph, path, i, st) ==
  LET u == path[i]
      v == path[i + 1]
      edge_data == _get_edge_data(graph, u, v)
      mode == edge_data.mode
      time == edge_data.time
      coord == graph.data[u]
  IN IF ~HasCoord(coord) THEN [st EXCEPT !.error = TRUE]
     ELSE LET s1 == IF st.current_mode = ""
                    THEN [st EXCEPT !.current_mode = mode, !.current_coords = <<coord>>]
                    ELSE st
              s2 == IF mode # s1.current_mode
                    THEN [s1 EXCEPT !.segments = Append(@, Segment(s1)),
                                    !.current_mode = mode,
                                    !.current_coords = <<coord>>,
                                    !.current_time = 0,
                                    !.current_cost = 0]
                    ELSE s1
          IN [s2 EXCEPT !.current_coords = AddCoord(@, coord),
                        !.current_time = @ + time,
                        !.current_cost = @ + calc_cost(mode, time),
                        !.hops = Append(@, edge_data)]

RECURSIVE SegmentLoop(_, _, _, _)
SegmentLoop(graph, path, i, st) ==
  IF i > Len(path) - 1 \/ st.error THEN st
  ELSE SegmentLoop(graph, path, i + 1, SegmentStep(graph, path, i, st))

\* the loop of _path_to_segments and what follows it
AssembleSegments(graph, path) ==
  LET st0 == [segments |-> <<>>, current_mode |-> "", current_coords |-> <<>>,
              current_time |-> 0, current_cost |-> 0, hops |-> <<>>,
              error |-> FALSE]
      st1 == SegmentLoop(graph, path, 1, st0)
      final_coord == graph.data[path[Len(path)]]
  IN IF st1.error \/ ~HasCoord(final_coord)
     THEN [segments |-> <<>>, hops |-> st1.hops, error |-> TRUE]
     ELSE LET st2 == [st1 EXCEPT !.current_coords = AddCoord(@, final_coord)]
          IN [segments |-> IF st2.current_mode # "" /\ st2.current_coords # <<>>
                           THEN Append(st2.segments, Segment(st2))
                           ELSE st2.segments,
              hops |-> st2.hops, error |-> FALSE]

\* a slip in the closing of the last segment: the early return is gone and
\* the last segment is appended whenever it has coordinates
_path_to_segments_unguarded(graph, path) ==
  IF Len(path) < 2
  THEN [segments |-> <<[mode |-> "", coords |-> <<graph.data[path[1]]>>,
                        time |-> 0, cost |-> 0]>>,
        hops |-> <<>>, error |-> FALSE]
  ELSE AssembleSegments(graph, path)

\* _path_to_segments: [segments, hops, error]; hops lists the edge data the
\* loop resolved for each hop of the path, error tells that a node of the
\* path has no 'y' (KeyError)
_path_to_segments(graph, path) ==
  IF Len(path) < 2 THEN [segments |-> <<>>, hops |-> <<>>, error |-> FALSE]
  ELSE AssembleSegments(graph, path)

\* a slip in the totals: the unrounded edge times are summed
RouteTotals_unrounded(segments, hops) ==
  [total_time |-> RoundTenths(SumSeq([i \in 1..Len(hops) |-> hops[i].time])),
   total_cost |-> SumSeq([i \in 1..Len(segments) |-> segments[i].cost])]

\* total_time = round(sum(segment['time']), 1), total_cost likewise; the
\* hops are not read
RouteTotals(segments, hops) ==
  [total_time |-> RoundTenths(SumSeq([i \in 1..Len(segments) |-> segments[i].time])
                              * (UnitsPerMinute \div 10)),
   total_cost |-> SumSeq([i \in 1..Len(segments) |-> segments[i].cost])]

Failure(status, detail, start_node, end_node) ==
  [status |-> status, detail |-> detail, start_node |-> start_node,
   end_node |-> end_node, path |-> <<>>, hops |-> <<>>, segments |-> <<>>,
   total_time |-> 0, total_cost |-> 0]

\* get_multimodal_route: the outcomes it may have.  status 200 is the
\* returned route_data; any other status is the exception it raises.
get_multimodal_route(graph, start_lat, end_lat) ==
  LET start_node == nearest_node(graph, start_lat)
      end_node == nearest_node(graph, end_lat)
  IN IF start_node = <<>> \/ end_node = <<>>
     THEN {Failure(500, "Could not find valid nodes", start_node, end_node)}
     ELSE LET paths == shortest_path(graph, start_node, end_node)
          IN IF paths = {}
             THEN {Failure(500, "No path found", start_node, end_node)}
             ELSE { LET r == _path_to_segments(graph, path)
                        t == RouteTotals(r.segments, r.hops)
                    IN IF r.error
                       THEN [Failure(500, "KeyError", start_node, end_node)
                               EXCEPT !.path = path, !.hops = r.hops]
                       ELSE [status |-> 200, detail |-> "", start_node |-> start_node,
                             end_node |-> end_node, path |-> path, hops |-> r.hops,
                             segments |-> r.segments,
                             total_time |-> t.total_time,
                             total_cost |-> t.total_cost]
                    : path \in paths }

(***************************************************************************)
(* backend_main                                                            *)
(***************************************************************************)
\* a slip in the handler: no check of G, so the router fails on None and
\* the failure is reported like any other, as HTTP 500
get_route_unchecked(g, start_lat, end_lat) ==
  IF g = None
  THEN {Failure(500, "AttributeError", <<>>, <<>>)}
  ELSE get_multimodal_route(g, start_lat, end_lat)

\* get_route: HTTP 503 while G is None, else the route or HTTP 500
get_route(g, start_lat, end_lat) ==
  IF g = None
  THEN {Failure(503, "Graph not loaded", <<>>, <<>>)}
  ELSE get_multimodal_route(g, start_lat, end_lat)

\* the latitudes a request may carry: those of the locations of the extract
QueryLats(o) == Range(o.geo)

NoResponse == Failure(0, "", <<>>, <<>>)

(***************************************************************************)
(* The input: the map extract the process is started on.                   *)
(***************************************************************************)
Row(u, v, length) == [u |-> u, v |-> v, length |-> length]

Rows == {Row(r[1], r[2], len) : r \in Roads, len \in Lengths}

\* the edge lists of the three modes: MaxRows rows at most, all together
GdfChoices ==
  UNION { [walk : [1..a -> Rows], bike : [1..b -> Rows], car : [1..c -> Rows]] :
          <<a, b, c>> \in {t \in (0..MaxRows) \X (0..MaxRows) \X (0..MaxRows) :
                             t[1] + t[2] + t[3] <= MaxRows} }

NoOsm ==
  [exists |-> FALSE, gdf |-> [m \in Modes |-> <<>>],
   geo |-> CHOOSE g \in Geometries : TRUE, nocoord |-> {}]

Inputs ==
  {NoOsm} \cup [exists : {TRUE}, gdf : GdfChoices, geo : Geometries,
                nocoord : NoCoordChoices]

Init ==
  /\ osm \in Inputs
  /\ G = None
  /\ startup = "pending"
  /\ response = NoResponse

\* startup_event, the OSM file being there: G = graph_builder.build()
StartupBuilt ==
  /\ startup = "pending"
  /\ osm.exists
  /\ G' = build(osm)
  /\ startup' = "done"
  /\ UNCHANGED <<osm, response>>

\* startup_event, no OSM file: build raises ValueError and G stays None
StartupFailed ==
  /\ startup = "pending"
  /\ ~osm.exists
  /\ startup' = "failed"
  /\ UNCHANGED <<osm, G, response>>

\* GET /route: the handler computes the response of one request
GetRoute ==
  /\ response = NoResponse
  /\ \E start_lat \in QueryLats(osm), end_lat \in QueryLats(osm) :
       \E r \in get_route(G, start_lat, end_lat) : response' = r
  /\ UNCHANGED <<osm, G, startup>>

\* the response is sent; nothing of the request is kept
SendResponse ==
  /\ response # NoResponse
  /\ response' = NoResponse
  /\ UNCHANGED <<osm, G, startup>>

Next == StartupBuilt \/ StartupFailed \/ GetRoute \/ SendResponse

Spec == Init /\ [][Next]_vars

\* the extracts in which one mode alone has roads
ChainInputs ==
  {NoOsm} \cup
  { [exists |-> TRUE,
     gdf |-> [m \in Modes |-> IF m = mode THEN rows ELSE <<>>],
     geo |-> geo, nocoord |-> {}] :
    mode \in Modes, rows \in UNION {[1..n -> Rows] : n \in 0..MaxChain},
    geo \in ChainGeometries }

InitChain ==
  /\ osm \in ChainInputs
  /\ G = None
  /\ startup = "pending"
  /\ response = NoResponse

\* the same process, started on an extract of one mode
SpecChain == InitChain /\ [][Next]_vars

(***************************************************************************)
(* Properties.                                                             *)
(***************************************************************************)
Built == G # None

CoordNodes(g) == {n \in Range(g.nodes) : HasCoord(g.data[n])}

\* the transfer edges n1 -> n2 of g, by their place in the edge sequence
TransferEdges(g, n1, n2) ==
  {i \in 1..Len(g.edges) :
     g.edges[i].u = n1 /\ g.edges[i].v = n2 /\ g.edges[i].attr.mode = "transfer"}

\* the pairs the co-located rule is about
ColocatedPairs(g) ==
  {p \in CoordNodes(g) \X CoordNodes(g) :
     LayerOf(p[1]) # LayerOf(p[2]) /\ OriginalId(p[1]) = OriginalId(p[2])}

\* the pairs the proximity rule is about
CrossLayerPairs(g) ==
  {p \in CoordNodes(g) \X CoordNodes(g) :
     LayerOf(p[1]) # LayerOf(p[2]) /\ OriginalId(p[1]) # OriginalId(p[2])}

IsColocatedTransfer(e) ==
  e.attr.weight = colocated_transfer_time /\ e.attr.time = colocated_transfer_time
  /\ e.attr.length = 0

C2_OneProximityPair ==
  Built =>
    \A p \in CrossLayerPairs(G) :
      LET distance == geodesic(G.data[p[1]], G.data[p[2]])
          ts == TransferEdges(G, p[1], p[2])
      IN IF distance <= max_transfer_distance
         THEN /\ Cardinality(ts) = 1
              /\ \A i \in ts : /\ G.edges[i].attr.weight = transfer_time
                               /\ G.edges[i].attr.time = transfer_time
                               /\ G.edges[i].attr.length = distance
         ELSE ts = {}

\* C3: every transfer edge joins nodes of two different layers, and every
\* walk, bike or car edge has both ends in the layer of its mode.
C3_TransfersCrossLayers ==
  Built =>
    \A e \in Range(G.edges) :
      IF e.attr.mode = "transfer"
      THEN LayerOf(e.u) # LayerOf(e.v)
      ELSE LayerOf(e.u) = e.attr.mode /\ LayerOf(e.v) = e.attr.mode

\* C4: for every hop u -> v of a returned route, the edge data the assembler
\* used (mode, time, hence cost) are those of an edge of least weight among
\* the parallel edges u -> v.
C4_LowestWeightParallelEdge ==
  response.status = 200 =>
    \A i \in 1..Len(response.hops) :
      response.hops[i].weight
        = MinOf({e.attr.weight :
                   e \in Range(ParallelEdges(G, response.path[i], response.path[i + 1]))})

\* C5: every edge of a built graph has a mode among walk, bike, car and
\* transfer, and weight = time >= 0.
C5_WeightIsTime ==
  Built =>
    \A e \in Range(G.edges) :
      /\ e.attr.mode \in EdgeModes
      /\ e.attr.weight = e.attr.time
      /\ e.attr.time >= 0

\* a built graph with a road edge timed from its length, one on the fallback
\* time, and a transfer edge
C5_Witness ==
  /\ Built
  /\ \E e \in Range(G.edges) : e.attr.mode \in Modes /\ e.attr.length # NoLength
  /\ \E e \in Range(G.edges) : e.attr.mode \in Modes /\ e.attr.length = NoLength
  /\ \E e \in Range(G.edges) : e.attr.mode = "transfer"

\* both ends of the request were resolved to nodes of the built graph
Resolved == response.start_node # <<>> /\ response.end_node # <<>>

\* C6: a request whose start and end resolve to the same node is answered
\* with a route of no segments, total time 0 and total cost 0.
C6_SameNodeEmptyRoute ==
  (Resolved /\ response.start_node = response.end_node) =>
    /\ response.status = 200
    /\ response.segments = <<>>
    /\ response.total_time = 0
    /\ response.total_cost = 0

\* such a request, on a node that has edges leaving it
C6_Witness ==
  /\ Resolved
  /\ response.start_node = response.end_node
  /\ response.status = 200
  /\ \E e \in Range(G.edges) : e.u = response.start_node

\* the nodes reachable from the nodes S along directed edges
RECURSIVE ReachableFrom(_, _)
ReachableFrom(g, S) ==
  LET T == S \cup {e.v : e \in {x \in Range(g.edges) : x.u \in S}}
  IN IF T = S THEN S ELSE ReachableFrom(g, T)

\* C7: a request whose end node cannot be reached from its start node fails
\* with the no-path-found error, and a request whose end node can be reached
\* is answered with a route.
C7_RouteIffReachable ==
  Resolved =>
    IF response.end_node \in ReachableFrom(G, {response.start_node})
    THEN response.status = 200
    ELSE response.status = 500 /\ response.detail = "No path found"

\* C8: while the graph is not built (startup pending or failed) a request
\* gets the not-ready answer, HTTP 503, and never a route; that answer
\* differs in status and detail from the no-route answer; and no request
\* handled after the build has completed gets it.
C8_NotReadyUntilBuilt ==
  /\ [](startup # "done" => response.status \in {0, 503})
  /\ [](response.status = 503 => response.detail = "Graph not loaded")
  /\ [](response.detail = "No path found" => response.status = 500)
  /\ [][(startup = "done" /\ response' # response) => response'.status # 503]_vars

\* a request answered not-ready after the build has failed
C8_Witness == startup = "failed" /\ response.status = 503

\* C9: the total time of a returned route is the sum of the rounded times
\* of its segments (tenths of a minute), its total cost the sum of their
\* costs.
C9_TotalsAreSumsOfSegments ==
  response.status = 200 =>
    /\ response.total_time
         = SumSeq([i \in 1..Len(response.segments) |-> response.segments[i].time])
    /\ response.total_cost
         = SumSeq([i \in 1..Len(response.segments) |-> response.segments[i].cost])

\* a route of several segments whose total differs from the rounded sum of
\* its unrounded edge times
C9_Witness ==
  /\ response.status = 200
  /\ Len(response.segments) >= 2
  /\ response.total_time
       # RoundTenths(SumSeq([i \in 1..Len(response.hops) |-> response.hops[i].time]))

\* the maximal runs of equal mode of a sequence of edge data: [mode, n]
RECURSIVE ModeRuns(_)
ModeRuns(hops) ==
  IF hops = <<>> THEN <<>>
  ELSE LET rest == ModeRuns(SubSeq(hops, 1, Len(hops) - 1))
           m == hops[Len(hops)].mode
       IN IF rest # <<>> /\ rest[Len(rest)].mode = m
          THEN [rest EXCEPT ![Len(rest)].n = @ + 1]
          ELSE Append(rest, [mode |-> m, n |-> 1])

CarHops(hops) == {i \in 1..Len(hops) : hops[i].mode = "car"}

PathHops(g, path) ==
  [i \in 1..(Len(path) - 1) |-> _get_edge_data(g, path[i], path[i + 1])]

\* the maximal runs of equal mode of a sequence of edge data, each with the
\* place of its first hop, the number of its hops and the sum of their
\* times: [mode, first, n, time]
RECURSIVE TimedRuns(_)
TimedRuns(hops) ==
  IF hops = <<>> THEN <<>>
  ELSE LET rest == TimedRuns(SubSeq(hops, 1, Len(hops) - 1))
           h == hops[Len(hops)]
       IN IF rest # <<>> /\ rest[Len(rest)].mode = h.mode
          THEN [rest EXCEPT ![Len(rest)].n = @ + 1, ![Len(rest)].time = @ + h.time]
          ELSE Append(rest, [mode |-> h.mode, first |-> Len(hops), n |-> 1,
                             time |-> h.time])

\* the segments are the maximal runs of equal mode of the path's edges, in
\* path order, and no two adjacent segments have the same mode
SegmentsAreRuns(segments, runs) ==
  /\ Len(segments) = Len(runs)
  /\ \A k \in 1..Len(runs) : segments[k].mode = runs[k].mode
  /\ \A k \in 1..(Len(segments) - 1) : segments[k].mode # segments[k + 1].mode

\* a returned route over a path of two nodes at least
RouteOverEdges == response.status = 200 /\ Len(response.path) >= 2

\* C11, as claimed: the segments of a path of two nodes or more are the
\* maximal runs of equal mode of its edges, and the time of each segment is
\* the sum of the times of its edges.
C11_SegmentTimeIsSum ==
  RouteOverEdges =>
    LET runs == TimedRuns(PathHops(G, response.path))
    IN /\ SegmentsAreRuns(response.segments, runs)
       /\ \A k \in 1..Len(runs) :
            response.segments[k].time * (UnitsPerMinute \div 10) = runs[k].time

\* C11, amended: the segments are those runs, and the time of each segment
\* is the sum of the times of its edges rounded to one decimal.
C11_SegmentTimeIsRoundedSum ==
  RouteOverEdges =>
    LET runs == TimedRuns(PathHops(G, response.path))
    IN /\ SegmentsAreRuns(response.segments, runs)
       /\ \A k \in 1..Len(runs) :
            response.segments[k].time = RoundTenths(runs[k].time)

\* a route walk, transfer, car in which the rounding changes a segment's time
C11_Witness ==
  /\ RouteOverEdges
  /\ [k \in 1..Len(response.segments) |-> response.segments[k].mode]
       = <<"walk", "transfer", "car">>
  /\ \E k \in 1..Len(response.segments) :
       response.segments[k].time * (UnitsPerMinute \div 10)
         # TimedRuns(PathHops(G, response.path))[k].time

\* s without the entries equal to the one before them
RECURSIVE ConsecutiveDedup(_)
ConsecutiveDedup(s) ==
  IF s = <<>> THEN <<>>
  ELSE LET r == ConsecutiveDedup(SubSeq(s, 1, Len(s) - 1))
           x == s[Len(s)]
       IN IF r # <<>> /\ r[Len(r)] = x THEN r ELSE Append(r, x)

\* the coordinates of the nodes traversed while segment k, the run r, is
\* open: the node each of its edges leaves and, for the last segment, the
\* destination
TraversedCoords(g, path, r, last) ==
  [i \in 1..r.n |-> g.data[path[r.first + i - 1]]]
    \o (IF last THEN <<g.data[path[Len(path)]]>> ELSE <<>>)

\* C12: the coordinates of a segment are those of the nodes traversed while
\* it is open with only the consecutive duplicates removed, so a coordinate
\* that equals an earlier, non-last one of the segment is kept, and the
\* last segment ends with the coordinate of the destination.
C12_OnlyConsecutiveDuplicatesDropped ==
  RouteOverEdges =>
    LET runs == TimedRuns(PathHops(G, response.path))
        segs == response.segments
    IN /\ Len(segs) = Len(runs)
       /\ \A k \in 1..Len(runs) :
            segs[k].coords
              = ConsecutiveDedup(TraversedCoords(G, response.path, runs[k], k = Len(runs)))
       /\ segs[Len(segs)].coords[Len(segs[Len(segs)].coords)]
            = G.data[response.path[Len(response.path)]]
====
